---- MODULE Spec2Model ----
(***************************************************************************)
(* Model of the research assistant: main.py (prompt gate and agent run),   *)
(* src/agent/agent.py (the search tool), src/search/exa.py (ExaSearchTool) *)
(* and src/search/crawler.py (ContentExtractor).                           *)
(*                                                                         *)
(* Conventions.  A text (prompt, page markdown, query, title) is a         *)
(* sequence of tokens: a whitespace character or a whole word.  A Python   *)
(* Optional is a sequence of length at most one: None is <<>>, a set value *)
(* x is <<x>>.  A moderation score is kept in tenths, so the code's 0.6 is *)
(* 6.  External services (the moderation model, the search API, the        *)
(* crawler, the agent runtime) answer nondeterministically.                *)
(***************************************************************************)
EXTENDS Integers, Sequences, FiniteSets, TLC

VARIABLES
    mainPc,        \* main.py: "input", "guard", "agent", "exit1", "crashed", "done"
    prompt,        \* main.py:21, Optional text
    promptGuard,   \* outcome of llama_guard(prompt), main.py:23
    agentRan,      \* research_agent.run_sync has been entered, main.py:27
    toolPc,        \* agent.py search tool: "idle", "called", "search", "extract", "returned", "raised"
    toolArgs,      \* the tool call's query and num_results
    contents,      \* what the tool returns to the agent, agent.py:60
    msPc,          \* ExaSearchTool call: "idle", "gather", "returned", "raised"
    msMode,        \* "multi" (multi_search) or "single" (search)
    queries,       \* the queries of the call
    kwargs,        \* search_type, num_results, subpages of the call
    msMax,         \* multi_search's max_concurrent
    sTasks,        \* one record per search coroutine
    msRet,         \* return value (or the exception raised)
    emPc,          \* ContentExtractor call: "idle", "gather", "returned"
    emMode,        \* "multi" (extract_multiple) or "single" (extract_content)
    urlsArg,       \* the urls argument of the call
    emMax,         \* extract_multiple's max_concurrent
    eTasks,        \* one record per extraction coroutine
    emRet,         \* return value
    loggerDict,    \* logging's registry: logger name -> logger
    currentEnv,    \* os.getenv("CURRENT_ENV"), Optional string
    callLog        \* per calling file: get_logger calls made and what they returned

vars == <<mainPc, prompt, promptGuard, agentRan, toolPc, toolArgs, contents,
          msPc, msMode, queries, kwargs, msMax, sTasks, msRet,
          emPc, emMode, urlsArg, emMax, eTasks, emRet,
          loggerDict, currentEnv, callLog>>

mainVars == <<mainPc, prompt, promptGuard, agentRan>>
toolVars == <<toolPc, toolArgs, contents>>
msVars   == <<msPc, msMode, queries, kwargs, msMax, sTasks, msRet>>
emVars   == <<emPc, emMode, urlsArg, emMax, eTasks, emRet>>
logVars  == <<loggerDict, currentEnv, callLog>>

(***************************************************************************)
(* Bounds of the model.                                                    *)
(***************************************************************************)
MaxQueries == 2        \* queries in one direct multi_search call
MaxUrls == 2           \* urls in one direct extract_multiple call
MaxResults == 1        \* results the search API returns for one query
MaxAgentQueries == 1   \* queries the agent passes to one tool call
MaxCalls == 2          \* get_logger calls followed per calling file

(***************************************************************************)
(* Python values.                                                          *)
(***************************************************************************)
None == <<>>
Some(x) == <<x>>

BoundedSeq(S, n) == UNION {[1..k -> S] : k \in 0..n}

IsWs(t) == t \in {" ", "\n"}

RECURSIVE LStrip(_)
LStrip(s) == IF s # <<>> /\ IsWs(Head(s)) THEN LStrip(Tail(s)) ELSE s

RECURSIVE RStrip(_)
RStrip(s) ==
    IF s # <<>> /\ IsWs(s[Len(s)]) THEN RStrip(SubSeq(s, 1, Len(s) - 1)) ELSE s

\* str.strip()
Strip(s) == RStrip(LStrip(s))

\* re.sub(r"\s+", " ", content): every whitespace run becomes one space.  The
\* substitution before it (three blank-separated newlines to two) only rewrites
\* whitespace runs, so this one erases its effect.
RECURSIVE CollapseWs(_)
CollapseWs(s) ==
    IF s = <<>> THEN <<>>
    ELSE IF IsWs(Head(s))
         THEN IF Len(s) > 1 /\ IsWs(s[2])
              THEN CollapseWs(Tail(s))
              ELSE <<" ">> \o CollapseWs(Tail(s))
         ELSE <<Head(s)>> \o CollapseWs(Tail(s))

\* Number of characters of a token (the words of the model's texts).
TokLen(t) ==
    CASE t \in {" ", "\n", "|"} -> 1
      [] t \in {"of", "42"} -> 2
      [] t \in {"Menu", "Home", "cars", "2024"} -> 4
      [] t = "Share" -> 5
      [] t = "safety" -> 6
      [] t = "features" -> 8
      [] t = "Copyright" -> 9
      [] OTHER -> 3

RECURSIVE CharLen(_)
CharLen(s) == IF s = <<>> THEN 0 ELSE TokLen(Head(s)) + CharLen(Tail(s))

\* The skip_patterns of _clean_content, matched against one stripped line
\* (re.IGNORECASE: a token stands for its word in any case).
SkipLine(line) ==
    \/ Head(line) \in {"Menu", "Navigation", "Cookie", "Privacy", "Terms", "Subscribe"}
    \/ /\ Len(line) >= 3
       /\ <<line[1], line[2], line[3]>> \in
             {<<"Skip", " ", "to">>, <<"Sign", " ", "up">>, <<"Log", " ", "in">>}
    \/ Len(line) = 1 /\ line[1] \in {"42", "2024"}
    \/ \A i \in 1..Len(line) : line[i] \in {"|", "-", " "}
    \/ Len(line) = 1 /\ line[1] \in {"Share", "Tweet", "Facebook", "LinkedIn", "Print"}
    \/ Head(line) = "Copyright" /\ \E i \in 2..Len(line) : line[i] = "2024"

\* ContentExtractor._clean_content.  After the whitespace collapse no newline
\* is left, so split("\n") yields one line.
_clean_content(content) ==
    IF content = <<>> THEN <<>>
    ELSE LET line == Strip(CollapseWs(content)) IN
         IF line = <<>> THEN <<>>
         ELSE IF SkipLine(line) THEN <<>>
         ELSE IF CharLen(line) > 10 THEN line
         ELSE <<>>

\* ContentExtractor._extract_title: the first <title> element's text, stripped.
_extract_title(html) == IF html.title = None THEN None ELSE Some(Strip(html.title[1]))

(***************************************************************************)
(* src/search/exa.py: ExaSearchTool.                                       *)
(***************************************************************************)
NoExc == [type |-> "", msg |-> ""]
ExaSearchException(msg) == [type |-> "ExaSearchException", msg |-> msg]

\* A validation whose lower bound on num_results is off by one.
ValidateOffByOne(query, search_type, num_results, subpages) ==
    IF query = <<>> \/ Strip(query) = <<>>
    THEN Some("Query cannot be empty")
    ELSE IF num_results < 0 \/ num_results > 100
    THEN Some("num_results must be between 1 and 100")
    ELSE IF search_type \notin {"auto", "neural", "keyword"}
    THEN Some("search_type must be 'auto', 'neural', or 'keyword'")
    ELSE IF subpages < 0 \/ subpages > 5
    THEN Some("subpages must be between 0 and 5")
    ELSE None

\* Input validation of search(): the message of the ExaSearchException it
\* raises, or None when every check passes.
Validate(query, search_type, num_results, subpages) ==
    IF query = <<>> \/ Strip(query) = <<>>
    THEN Some("Query cannot be empty")
    ELSE IF num_results < 1 \/ num_results > 100
    THEN Some("num_results must be between 1 and 100")
    ELSE IF search_type \notin {"auto", "neural", "keyword"}
    THEN Some("search_type must be 'auto', 'neural', or 'keyword'")
    ELSE IF subpages < 0 \/ subpages > 5
    THEN Some("subpages must be between 0 and 5")
    ELSE None

\* A search coroutine that gather has created and not yet run.
PendingSearch ==
    [st |-> "pending", called |-> FALSE, sent |-> None, res |-> <<>>, exc |-> NoExc]

\* search() from its entry to its first suspension: either the validation
\* raises, or search_and_contents is submitted to the executor with the
\* stripped query.
SearchBegin(query, kw) ==
    LET err == Validate(query, kw.search_type, kw.num_results, kw.subpages) IN
    IF err # None
    THEN [st |-> "raised", called |-> FALSE, sent |-> None, res |-> <<>>,
          exc |-> ExaSearchException(err[1])]
    ELSE [st |-> "inflight", called |-> TRUE, sent |-> Some(Strip(query)),
          res |-> <<>>, exc |-> NoExc]

\* What the search API hands back: title may be missing.
RawResults ==
    { [title |-> None, url |-> "u1"], [title |-> Some("Cars"), url |-> "u2"] }

\* SearchResult(title=result.title or "No title", url=result.url, ...); the
\* fields copied unchanged besides url are left out.
SearchResult(raw) ==
    [title |-> IF raw.title = None THEN "No title" ELSE raw.title[1], url |-> raw.url]

Min(a, b) == IF a < b THEN a ELSE b

\* Outcomes of one search_and_contents call asking for num_results results.
ApiOutcomes(num_results) ==
    {[kind |-> "error", raw |-> <<>>]} \cup
    {[kind |-> "results", raw |-> r] :
        r \in BoundedSeq(RawResults, Min(num_results, MaxResults))}

\* search() after the executor's future resolves: parse the results, or wrap
\* the exception in an ExaSearchException.
SearchEnd(task, out) ==
    IF out.kind = "results"
    THEN [task EXCEPT !.st = "ok",
                      !.res = [i \in 1..Len(out.raw) |-> SearchResult(out.raw[i])]]
    ELSE [task EXCEPT !.st = "raised",
                      !.exc = ExaSearchException("EXA search failed")]

SearchDone(task) == task.st \in {"ok", "raised"}

\* asyncio.gather without return_exceptions: the first exception is raised.
GatherSearchRaising(tasks) ==
    IF \E i \in 1..Len(tasks) : tasks[i].st = "raised"
    THEN [kind |-> "raise", val |-> <<>>]
    ELSE [kind |-> "results", val |-> tasks]

\* asyncio.gather(*[...], return_exceptions=True) once every coroutine is done:
\* a list with each coroutine's return value or exception, in argument order.
GatherSearch(tasks) == [kind |-> "results", val |-> tasks]

\* The loop of multi_search over the gathered results.  search() raises nothing
\* but ExaSearchException, so the isinstance test separates the raised from the
\* returned; processed_results.extend(...) appends the elements.
RECURSIVE ProcessSearchResults(_)
ProcessSearchResults(results) ==
    IF results = <<>> THEN <<>>
    ELSE (IF Head(results).st = "raised" THEN <<>> ELSE Head(results).res)
         \o ProcessSearchResults(Tail(results))

\* exa_search: a non-empty list goes to multi_search, anything else to search
\* with query[0] for a list (IndexError when the list is empty).
ExaSearchRoute(query) ==
    IF query.kind = "list" /\ Len(query.list) > 0 THEN "multi_search"
    ELSE IF query.kind = "list" THEN "IndexError"
    ELSE "search"

\* Entry of multi_search(queries, max_concurrent, **kwargs).
EnterMultiSearch(qs, k, kw) ==
    /\ msMode' = "multi"
    /\ queries' = qs
    /\ kwargs' = kw
    /\ msMax' = k
    /\ IF qs = <<>>
       THEN msPc' = "returned" /\ sTasks' = <<>> /\ msRet' = <<>>
       ELSE /\ msPc' = "gather"
            /\ sTasks' = [i \in 1..Len(qs) |-> PendingSearch]
            /\ msRet' = <<>>

\* Entry of search(query, ...), called on its own.
EnterSearch(q, kw) ==
    /\ msMode' = "single"
    /\ queries' = <<q>>
    /\ kwargs' = kw
    /\ msMax' = 1
    /\ msPc' = "gather"
    /\ sTasks' = <<PendingSearch>>
    /\ msRet' = <<>>

\* The event loop runs a search coroutine to its first suspension; gather's
\* tasks start in argument order.
StartSearch(i) ==
    /\ msPc = "gather"
    /\ i \in 1..Len(sTasks)
    /\ sTasks[i].st = "pending"
    /\ \A j \in 1..(i - 1) : sTasks[j].st # "pending"
    /\ sTasks' = [sTasks EXCEPT ![i] = SearchBegin(queries[i], kwargs)]
    /\ UNCHANGED <<msPc, msMode, queries, kwargs, msMax, msRet>>
    /\ UNCHANGED <<mainVars, toolVars, emVars>>
    /\ UNCHANGED logVars

\* The API call of a search completes, in any order.
CompleteSearch(i) ==
    /\ msPc = "gather"
    /\ i \in 1..Len(sTasks)
    /\ sTasks[i].st = "inflight"
    /\ \E out \in ApiOutcomes(kwargs.num_results) :
          sTasks' = [sTasks EXCEPT ![i] = SearchEnd(sTasks[i], out)]
    /\ UNCHANGED <<msPc, msMode, queries, kwargs, msMax, msRet>>
    /\ UNCHANGED <<mainVars, toolVars, emVars>>
    /\ UNCHANGED logVars

\* multi_search resumes from gather and returns the processed results.
MultiSearchReturn ==
    /\ msPc = "gather"
    /\ msMode = "multi"
    /\ \A i \in 1..Len(sTasks) : SearchDone(sTasks[i])
    /\ LET g == GatherSearch(sTasks) IN
       IF g.kind = "raise"
       THEN msPc' = "raised" /\ msRet' = <<>>
       ELSE msPc' = "returned" /\ msRet' = ProcessSearchResults(g.val)
    /\ UNCHANGED <<msMode, queries, kwargs, msMax, sTasks>>
    /\ UNCHANGED <<mainVars, toolVars, emVars>>
    /\ UNCHANGED logVars

\* search, called on its own, returns its results or raises.
SearchReturn ==
    /\ msPc = "gather"
    /\ msMode = "single"
    /\ SearchDone(sTasks[1])
    /\ IF sTasks[1].st = "raised"
       THEN msPc' = "raised" /\ msRet' = <<>>
       ELSE msPc' = "returned" /\ msRet' = sTasks[1].res
    /\ UNCHANGED <<msMode, queries, kwargs, msMax, sTasks>>
    /\ UNCHANGED <<mainVars, toolVars, emVars>>
    /\ UNCHANGED logVars

(***************************************************************************)
(* src/search/crawler.py: llama_guard and ContentExtractor.                *)
(***************************************************************************)
\* Scores the moderation model may return, in tenths (6 is the code's 0.6).
Scores == {5, 6, 7}

NoGuard == [kind |-> "none", score |-> 0]

\* llama_guard(text): a score, a reply float() cannot parse (ValueError), or
\* an exception of the client.
GuardOutcomes ==
    {[kind |-> "score", score |-> s] : s \in Scores} \cup
    {[kind |-> "unparsable", score |-> 0], [kind |-> "error", score |-> 0]}

GuardMessage(g) ==
    IF g.kind = "unparsable" THEN "could not convert string to float"
    ELSE "moderation request failed"

URLS == {"u1", "u2"}

\* Pages the crawler may fetch: the markdown and the <title> of the html.
Pages ==
    { [markdown |-> <<"\n", "safety", " ", " ", "features", "\n", "\n", "\n",
                      "of", " ", "cars", " ">>,
       html |-> [title |-> Some(<<" ", "Cars", " ">>)]],
      [markdown |-> <<"Menu", " ", "|", " ", "Home">>,
       html |-> [title |-> None]] }

NoPage == [markdown |-> <<>>, html |-> [title |-> None]]
NoCrawl == [kind |-> "none", page |-> NoPage]

\* crawler.arun(url): an exception, a result with success False, or a page.
CrawlOutcomes ==
    {[kind |-> "exception", page |-> NoPage], [kind |-> "failed", page |-> NoPage]}
    \cup {[kind |-> "ok", page |-> p] : p \in Pages}

ExtractionResult(url, success, content, title, error) ==
    [url |-> url, success |-> success, content |-> content, title |-> title,
     error |-> error]

\* A page gate that lets the low scores through.
PageAllowedBelow(score) == ~(score > 6)

\* The test of the page gate, "if guard_result > 0.6": TRUE returns the page
\* with success=True.
PageAllowed(score) == score > 6

\* A block that keeps the page's content in the result.
BlockedResultWithContent(url, cleaned) ==
    ExtractionResult(url, FALSE, Some(cleaned), None, Some("Content blocked by Llama Guard"))

\* The else branch of the page gate.
BlockedResult(url, cleaned) ==
    ExtractionResult(url, FALSE, None, None, Some("Content blocked by Llama Guard"))

\* An except clause that lets the exception out of extract_content.
OnExtractExceptionReraise(url, msg) ==
    [raised |-> TRUE, result |-> ExtractionResult("", FALSE, None, None, None)]

\* The except clause of extract_content: an error result is returned.
OnExtractException(url, msg) ==
    [raised |-> FALSE, result |-> ExtractionResult(url, FALSE, None, None, Some(msg))]

\* extract_content from the crawler's answer to its return.  guard is the
\* answer llama_guard gives if it is reached; scored is the text it was given.
ExtractEnd(url, crawl, guard) ==
    IF crawl.kind = "exception"
    THEN [crawl |-> crawl, guard |-> NoGuard, scored |-> None]
         @@ OnExtractException(url, "crawler error")
    ELSE IF crawl.kind = "failed"
    THEN [crawl |-> crawl, guard |-> NoGuard, scored |-> None, raised |-> FALSE,
          result |-> ExtractionResult(url, FALSE, None, None,
                                      Some("Failed to fetch content from URL"))]
    ELSE LET cleaned_content == _clean_content(crawl.page.markdown)
             title == _extract_title(crawl.page.html)
         IN  IF guard.kind # "score"
             THEN [crawl |-> crawl, guard |-> guard, scored |-> Some(cleaned_content)]
                  @@ OnExtractException(url, GuardMessage(guard))
             ELSE [crawl |-> crawl, guard |-> guard, scored |-> Some(cleaned_content),
                   raised |-> FALSE,
                   result |-> IF PageAllowed(guard.score)
                              THEN ExtractionResult(url, TRUE, Some(cleaned_content),
                                                    title, None)
                              ELSE BlockedResult(url, cleaned_content)]

NoResult == ExtractionResult("", FALSE, None, None, None)

\* An extraction coroutine that gather has created and not yet run.
PendingExtract(url) ==
    [st |-> "pending", url |-> url, crawl |-> NoCrawl, guard |-> NoGuard,
     scored |-> None, raised |-> FALSE, result |-> NoResult]

Put(map, k, v) == [x \in DOMAIN map \cup {k} |-> IF x = k THEN v ELSE map[x]]

\* A loop that stops at the first result that is not a success.
RECURSIVE ProcessUntilFailure(_, _, _)
ProcessUntilFailure(results, i, acc) ==
    IF i > Len(results) THEN acc
    ELSE IF results[i].raised \/ ~results[i].result.success THEN acc
    ELSE ProcessUntilFailure(results, i + 1, Put(acc, results[i].url, results[i].result))

\* A loop that stores the successful results only.
RECURSIVE ProcessSuccessesOnly(_, _, _)
ProcessSuccessesOnly(results, i, acc) ==
    IF i > Len(results) THEN acc
    ELSE IF results[i].raised \/ ~results[i].result.success
    THEN ProcessSuccessesOnly(results, i + 1, acc)
    ELSE ProcessSuccessesOnly(results, i + 1,
                              Put(acc, results[i].url, results[i].result))

\* The loop of extract_multiple over the gathered results, from index i with the
\* dict built so far: an exception is skipped, a (url, result) pair is stored.
RECURSIVE ProcessExtractResults(_, _, _)
ProcessExtractResults(results, i, acc) ==
    IF i > Len(results) THEN acc
    ELSE IF results[i].raised THEN ProcessExtractResults(results, i + 1, acc)
    ELSE ProcessExtractResults(results, i + 1,
                               Put(acc, results[i].url, results[i].result))

\* A dispatch that takes an empty list for a single url.
IsSingleUrlOrEmpty(arg) == arg.kind = "str" \/ arg.list = <<>>

\* extract_web_content: isinstance(urls, str).
IsSingleUrl(arg) == arg.kind = "str"

\* Entry of extract_multiple(urls, max_concurrent).
EnterExtractMultiple(arg, k) ==
    /\ emMode' = "multi"
    /\ urlsArg' = arg
    /\ emMax' = k
    /\ IF arg.list = <<>>
       THEN emPc' = "returned" /\ eTasks' = <<>> /\ emRet' = <<>>
       ELSE /\ emPc' = "gather"
            /\ eTasks' = [i \in 1..Len(arg.list) |-> PendingExtract(arg.list[i])]
            /\ emRet' = <<>>

\* Entry of extract_content(url), called on its own.
EnterExtractContent(arg) ==
    /\ emMode' = "single"
    /\ urlsArg' = arg
    /\ emMax' = 1
    /\ emPc' = "gather"
    /\ eTasks' = <<PendingExtract(IF arg.kind = "str" THEN arg.str ELSE "")>>
    /\ emRet' = <<>>

\* extract_web_content(urls): max_concurrent keeps extract_multiple's default.
EnterExtractWebContent(arg) ==
    IF IsSingleUrl(arg) THEN EnterExtractContent(arg) ELSE EnterExtractMultiple(arg, 10)

\* The event loop runs an extraction coroutine up to "await crawler.arun";
\* gather's tasks start in argument order.
StartExtract(i) ==
    /\ emPc = "gather"
    /\ i \in 1..Len(eTasks)
    /\ eTasks[i].st = "pending"
    /\ \A j \in 1..(i - 1) : eTasks[j].st # "pending"
    /\ eTasks' = [eTasks EXCEPT ![i].st = "crawling"]
    /\ UNCHANGED <<emPc, emMode, urlsArg, emMax, emRet>>
    /\ UNCHANGED <<mainVars, toolVars, msVars>>
    /\ UNCHANGED logVars

\* The crawl of an extraction completes, in any order; the rest of
\* extract_content, llama_guard included, runs without suspending.
CompleteExtract(i) ==
    /\ emPc = "gather"
    /\ i \in 1..Len(eTasks)
    /\ eTasks[i].st = "crawling"
    /\ \E crawl \in CrawlOutcomes, guard \in GuardOutcomes :
          eTasks' = [eTasks EXCEPT
                       ![i] = [st |-> "done", url |-> eTasks[i].url]
                              @@ ExtractEnd(eTasks[i].url, crawl, guard)]
    /\ UNCHANGED <<emPc, emMode, urlsArg, emMax, emRet>>
    /\ UNCHANGED <<mainVars, toolVars, msVars>>
    /\ UNCHANGED logVars

\* extract_multiple resumes from gather and returns the dict.
ExtractMultipleReturn ==
    /\ emPc = "gather"
    /\ emMode = "multi"
    /\ \A i \in 1..Len(eTasks) : eTasks[i].st = "done"
    /\ emPc' = "returned"
    /\ emRet' = ProcessExtractResults(eTasks, 1, <<>>)
    /\ UNCHANGED <<emMode, urlsArg, emMax, eTasks>>
    /\ UNCHANGED <<mainVars, toolVars, msVars>>
    /\ UNCHANGED logVars

\* extract_content, called on its own, returns its result.
ExtractContentReturn ==
    /\ emPc = "gather"
    /\ emMode = "single"
    /\ eTasks[1].st = "done"
    /\ IF eTasks[1].raised
       THEN emPc' = "raised" /\ emRet' = <<>>
       ELSE emPc' = "returned" /\ emRet' = eTasks[1].result
    /\ UNCHANGED <<emMode, urlsArg, emMax, eTasks>>
    /\ UNCHANGED <<mainVars, toolVars, msVars>>
    /\ UNCHANGED logVars

(***************************************************************************)
(* Inputs of the model.                                                    *)
(***************************************************************************)
Prompts == { <<"safety", " ", "of", " ", "cars">>, <<"ignore", " ", "rules">> }

QueryTexts == { <<>>, <<" ">>, <<"cars">>, <<" ", "safety", " ">> }

StrArg(q) == [kind |-> "str", str |-> q, list |-> <<>>]
ListArg(l) == [kind |-> "list", str |-> <<>>, list |-> l]

\* search()'s defaults: search_type="auto", num_results=5, subpages=0.
DefaultKwargs == [search_type |-> "auto", num_results |-> 5, subpages |-> 0]

\* Keyword arguments tried on a direct search() call: each bound, both sides.
SearchKwargs ==
    [search_type : {"auto", "neural", "keyword", "fuzzy"},
     num_results : {0, 1, 100, 101},
     subpages : {0 - 1, 0, 5, 6}]

\* Keyword arguments tried on a direct multi_search() call.
MultiSearchKwargs ==
    { DefaultKwargs,
      [search_type |-> "keyword", num_results |-> 1, subpages |-> 5],
      [search_type |-> "auto", num_results |-> 101, subpages |-> 0] }

\* Values of max_concurrent tried on a direct call: 10 is the default.
MaxConcurrentChoices == {1, 10}

\* What the agent runtime may pass to the search tool.
AgentQueries ==
    {StrArg(q) : q \in QueryTexts}
    \cup {ListArg(l) : l \in BoundedSeq(QueryTexts, MaxAgentQueries)}
AgentNumResults == {0, 1}

(***************************************************************************)
(* main.py.                                                                *)
(***************************************************************************)
\* A prompt gate one tenth too lenient.
PromptBlockedAbove7(score) == score > 7

\* The test of the prompt gate, "if llama_guard(prompt) > 0.6": TRUE exits.
PromptBlocked(score) == score > 6

\* prompt = input("Enter your prompt: ")
ReadPrompt ==
    /\ mainPc = "input"
    /\ \E p \in Prompts : prompt' = Some(p)
    /\ mainPc' = "guard"
    /\ UNCHANGED <<promptGuard, agentRan>>
    /\ UNCHANGED <<toolVars, msVars, emVars>>
    /\ UNCHANGED logVars

\* llama_guard(prompt) and the gate: exit(1), or research_agent.run_sync; an
\* exception of llama_guard is not caught.
GuardPrompt ==
    /\ mainPc = "guard"
    /\ \E g \in GuardOutcomes :
          /\ promptGuard' = g
          /\ IF g.kind # "score"
             THEN mainPc' = "crashed" /\ agentRan' = agentRan
             ELSE IF PromptBlocked(g.score)
             THEN mainPc' = "exit1" /\ agentRan' = agentRan
             ELSE mainPc' = "agent" /\ agentRan' = TRUE
    /\ UNCHANGED prompt
    /\ UNCHANGED <<toolVars, msVars, emVars>>
    /\ UNCHANGED logVars

(***************************************************************************)
(* src/agent/agent.py: the agent runtime and the search tool.              *)
(***************************************************************************)
\* The agent runtime calls the search tool (again, after a call returned); the
\* call starts with fresh ExaSearchTool and ContentExtractor frames.
AgentCallTool ==
    /\ mainPc = "agent"
    /\ toolPc \in {"idle", "returned"}
    /\ \E q \in AgentQueries, n \in AgentNumResults :
          toolArgs' = [query |-> q, num_results |-> n]
    /\ toolPc' = "called"
    /\ contents' = <<>>
    /\ msPc' = "idle" /\ msMode' = "multi" /\ queries' = <<>>
    /\ kwargs' = DefaultKwargs /\ msMax' = 10 /\ sTasks' = <<>> /\ msRet' = <<>>
    /\ emPc' = "idle" /\ emMode' = "multi" /\ urlsArg' = ListArg(<<>>)
    /\ emMax' = 10 /\ eTasks' = <<>> /\ emRet' = <<>>
    /\ UNCHANGED mainVars
    /\ UNCHANGED logVars

\* query_list = [query] if isinstance(query, str) else query
QueryList(query) == IF query.kind = "str" THEN <<query.str>> ELSE query.list

\* The tool calls exa_search(query=query_list, num_results=num_results), which
\* builds an ExaSearchTool (an ExaSearchException when no API key is set) and
\* routes the call.
ToolSearch ==
    /\ toolPc = "called"
    /\ \E api_key \in BOOLEAN :
          LET query_list == ListArg(QueryList(toolArgs.query))
              kw == [DefaultKwargs EXCEPT !.num_results = toolArgs.num_results]
          IN  IF api_key /\ ExaSearchRoute(query_list) = "multi_search"
              THEN toolPc' = "search" /\ EnterMultiSearch(query_list.list, 10, kw)
              ELSE toolPc' = "raised" /\ UNCHANGED msVars
    /\ UNCHANGED <<toolArgs, contents>>
    /\ UNCHANGED <<mainVars, emVars>>
    /\ UNCHANGED logVars

\* urls = [result.url for result in results]
ResultUrls(results) == [i \in 1..Len(results) |-> results[i].url]

\* exa_search has returned: the tool calls extract_web_content(urls=urls, ...).
ToolExtract ==
    /\ toolPc = "search"
    /\ msPc = "returned"
    /\ toolPc' = "extract"
    /\ EnterExtractWebContent(ListArg(ResultUrls(msRet)))
    /\ UNCHANGED <<toolArgs, contents>>
    /\ UNCHANGED <<mainVars, msVars>>
    /\ UNCHANGED logVars

\* return contents
ToolReturn ==
    /\ toolPc = "extract"
    /\ emPc = "returned"
    /\ toolPc' = "returned"
    /\ contents' = emRet
    /\ UNCHANGED toolArgs
    /\ UNCHANGED <<mainVars, msVars, emVars>>
    /\ UNCHANGED logVars

\* run_sync returns and main.py prints the answer.
AgentFinish ==
    /\ mainPc = "agent"
    /\ toolPc \in {"idle", "returned"}
    /\ mainPc' = "done"
    /\ UNCHANGED <<prompt, promptGuard, agentRan>>
    /\ UNCHANGED <<toolVars, msVars, emVars>>
    /\ UNCHANGED logVars

\* The tool raised (no API key, or exa_search on an empty query list): run_sync
\* fails.
AgentFail ==
    /\ mainPc = "agent"
    /\ toolPc = "raised"
    /\ mainPc' = "crashed"
    /\ UNCHANGED <<prompt, promptGuard, agentRan>>
    /\ UNCHANGED <<toolVars, msVars, emVars>>
    /\ UNCHANGED logVars

(***************************************************************************)
(* Direct calls of the library's entry points.                             *)
(***************************************************************************)
LibraryIdle == mainPc = "input" /\ toolPc = "idle" /\ msPc = "idle" /\ emPc = "idle"

ApiSearch ==
    /\ LibraryIdle
    /\ \E q \in QueryTexts, kw \in SearchKwargs : EnterSearch(q, kw)
    /\ UNCHANGED <<mainVars, toolVars, emVars>>
    /\ UNCHANGED logVars

ApiMultiSearch ==
    /\ LibraryIdle
    /\ \E qs \in BoundedSeq(QueryTexts, MaxQueries), k \in MaxConcurrentChoices,
          kw \in MultiSearchKwargs : EnterMultiSearch(qs, k, kw)
    /\ UNCHANGED <<mainVars, toolVars, emVars>>
    /\ UNCHANGED logVars

ApiExtractMultiple ==
    /\ LibraryIdle
    /\ \E us \in BoundedSeq(URLS, MaxUrls), k \in MaxConcurrentChoices :
          EnterExtractMultiple(ListArg(us), k)
    /\ UNCHANGED <<mainVars, toolVars, msVars>>
    /\ UNCHANGED logVars

ApiExtractWebContent ==
    /\ LibraryIdle
    /\ \E arg \in {StrArg(u) : u \in URLS} \cup {ListArg(us) : us \in BoundedSeq(URLS, MaxUrls)} :
          EnterExtractWebContent(arg)
    /\ UNCHANGED <<mainVars, toolVars, msVars>>
    /\ UNCHANGED logVars

(***************************************************************************)
(* src/utils/logger.py: get_logger.  os.makedirs and logging.FileHandler   *)
(* are taken to succeed.                                                   *)
(***************************************************************************)
\* The files that call get_logger(): agent.py, crawler.py and exa.py.
Callers ==
    { [dir |-> "src/agent", base |-> "agent", ext |-> ".py"],
      [dir |-> "src/search", base |-> "crawler", ext |-> ".py"],
      [dir |-> "src/search", base |-> "exa", ext |-> ".py"] }

\* Values of the environment variable CURRENT_ENV: unset, "DEV", "PROD".
Envs == {None, Some("DEV"), Some("PROD")}

\* get_caller_file: os.path.splitext(os.path.basename(co_filename))[0].
get_caller_file(path) == path.base

\* logging.getLogger(name): the registered logger of that name, or a new one
\* (level NOTSET, no handlers, propagating) under the next object identity.
getLogger(dict, name) ==
    IF name \in DOMAIN dict THEN dict[name]
    ELSE [id |-> Cardinality(DOMAIN dict) + 1, level |-> "NOTSET",
          handlers |-> <<>>, propagate |-> TRUE]

\* The handlers one configuration adds: the file handler of logs/<name>.log
\* when CURRENT_ENV is "DEV", then the console handler.
NewHandlers(name, env) ==
    (IF env = Some("DEV") THEN <<[kind |-> "file", target |-> Some(name)]>> ELSE <<>>)
    \o <<[kind |-> "console", target |-> None]>>

\* A get_logger that adds its handlers on every call.
ConfigureAlways(logger, name, env) ==
    [logger EXCEPT !.level = "INFO",
                   !.handlers = logger.handlers \o NewHandlers(name, env),
                   !.propagate = FALSE]

\* The body of get_logger on the logger of the caller: setLevel(INFO), and the
\* handlers and propagate = False only "if not logger.handlers".
Configure(logger, name, env) ==
    IF logger.handlers = <<>>
    THEN [logger EXCEPT !.level = "INFO",
                        !.handlers = NewHandlers(name, env),
                        !.propagate = FALSE]
    ELSE [logger EXCEPT !.level = "INFO"]

NoCalls == [n |-> 0, firstEnv |-> None, firstId |-> 0, lastId |-> 0]

\* get_logger() called from the file c.
get_logger(c) ==
    /\ callLog[c].n < MaxCalls
    /\ LET name == get_caller_file(c)
           logger == Configure(getLogger(loggerDict, name), name, currentEnv)
       IN  /\ loggerDict' = Put(loggerDict, name, logger)
           /\ callLog' = [callLog EXCEPT
                            ![c] = [n |-> @.n + 1,
                                    firstEnv |-> IF @.n = 0 THEN currentEnv ELSE @.firstEnv,
                                    firstId |-> IF @.n = 0 THEN logger.id ELSE @.firstId,
                                    lastId |-> logger.id]]
    /\ UNCHANGED currentEnv
    /\ UNCHANGED <<mainVars, toolVars, msVars, emVars>>

\* The environment variable CURRENT_ENV changes between two calls.
SetEnv ==
    /\ \E e \in Envs : e # currentEnv /\ currentEnv' = e
    /\ UNCHANGED <<loggerDict, callLog>>
    /\ UNCHANGED <<mainVars, toolVars, msVars, emVars>>

(***************************************************************************)
(* Specifications.                                                         *)
(***************************************************************************)
Init ==
    /\ mainPc = "input" /\ prompt = None /\ promptGuard = NoGuard /\ agentRan = FALSE
    /\ toolPc = "idle" /\ toolArgs = [query |-> ListArg(<<>>), num_results |-> 5]
    /\ contents = <<>>
    /\ msPc = "idle" /\ msMode = "multi" /\ queries = <<>> /\ kwargs = DefaultKwargs
    /\ msMax = 10 /\ sTasks = <<>> /\ msRet = <<>>
    /\ emPc = "idle" /\ emMode = "multi" /\ urlsArg = ListArg(<<>>) /\ emMax = 10
    /\ eTasks = <<>> /\ emRet = <<>>
    /\ loggerDict = <<>> /\ currentEnv = None /\ callLog = [c \in Callers |-> NoCalls]

\* The concurrent part of a multi_search and an extract_multiple call.
Library ==
    \/ \E i \in 1..Len(sTasks) : StartSearch(i)
    \/ \E i \in 1..Len(sTasks) : CompleteSearch(i)
    \/ MultiSearchReturn
    \/ \E i \in 1..Len(eTasks) : StartExtract(i)
    \/ \E i \in 1..Len(eTasks) : CompleteExtract(i)
    \/ ExtractMultipleReturn

\* The program: main.py.
Next ==
    \/ ReadPrompt
    \/ GuardPrompt
    \/ AgentCallTool
    \/ ToolSearch
    \/ ToolExtract
    \/ ToolReturn
    \/ AgentFinish
    \/ AgentFail
    \/ Library

Spec == Init /\ [][Next]_vars

\* The library under direct calls of search, multi_search, extract_multiple and
\* extract_web_content.
NextApi ==
    \/ ApiSearch
    \/ ApiMultiSearch
    \/ ApiExtractMultiple
    \/ ApiExtractWebContent
    \/ SearchReturn
    \/ ExtractContentReturn
    \/ Library

SpecApi == Init /\ [][NextApi]_vars

\* get_logger under any sequence of calls from the calling files.
NextLogger ==
    \/ SetEnv
    \/ \E c \in Callers : get_logger(c)

SpecLogger == Init /\ [][NextLogger]_vars

(***************************************************************************)
(* Properties.                                                             *)
(***************************************************************************)
ETaskIds == 1..Len(eTasks)
STaskIds == 1..Len(sTasks)

\* The extraction i reached llama_guard and got a score back.
Scored(i) == eTasks[i].st = "done" /\ eTasks[i].guard.kind = "score"

\* No later extraction of the same call has the same url (its dict entry stays).
LastForUrl(i) == \A j \in ETaskIds : j > i => eTasks[j].url # eTasks[i].url

\* C1: at every moderation gate a text whose score is greater than 0.6 is
\* blocked: such a prompt is never passed to the agent, and such a page never
\* yields an ExtractionResult with success=True.
C1_ScoreAbove06AlwaysBlocks ==
    /\ (promptGuard.kind = "score" /\ promptGuard.score > 6) => ~agentRan
    /\ \A i \in ETaskIds :
          (Scored(i) /\ eTasks[i].guard.score > 6) => ~eTasks[i].result.success

\* C2: the prompt gate and the page gate reach the same allow/block decision for
\* the same score: a page whose score equals the prompt's is allowed exactly when
\* the prompt was.
C2_GatesAgree ==
    \A i \in ETaskIds :
        (Scored(i) /\ promptGuard.kind = "score"
                   /\ eTasks[i].guard.score = promptGuard.score)
        => (eTasks[i].result.success <=> agentRan)

\* The extraction i's own fetch and moderation succeeded: the crawler returned a
\* page, llama_guard returned a score, and the page gate did not block it.
OwnSuccess(i) ==
    /\ eTasks[i].st = "done"
    /\ eTasks[i].crawl.kind = "ok"
    /\ eTasks[i].guard.kind = "score"
    /\ PageAllowed(eTasks[i].guard.score)

\* C3: in extract_multiple a failing extraction does not prevent the others from
\* succeeding: the call never raises, every extraction whose own fetch and
\* moderation succeeded has success=True whatever the others did, and its url
\* is in the returned mapping with that result.
C3_FailureIsolation ==
    emMode = "multi" =>
        /\ emPc # "raised"
        /\ \A i \in ETaskIds : OwnSuccess(i) => eTasks[i].result.success
        /\ emPc = "returned" =>
              \A i \in ETaskIds :
                  (OwnSuccess(i) /\ LastForUrl(i)) =>
                      /\ eTasks[i].url \in DOMAIN emRet
                      /\ emRet[eTasks[i].url].success
                      /\ emRet[eTasks[i].url] = eTasks[i].result

\* extract_multiple returned with one url failed and another one a success.
C3_Witness ==
    /\ emMode = "multi" /\ emPc = "returned"
    /\ \E i, j \in ETaskIds :
          /\ eTasks[i].url # eTasks[j].url
          /\ ~eTasks[i].result.success
          /\ OwnSuccess(j)
          /\ emRet[eTasks[j].url].success

\* The bounds of the search parameters, as the claim states them.
ParamsInBounds(query, kw) ==
    /\ \E k \in 1..Len(query) : query[k] \notin {" ", "\n"}
    /\ kw.num_results \in 1..100
    /\ kw.subpages \in 0..5
    /\ kw.search_type \in {"auto", "neural", "keyword"}

\* C4: search enforces its parameter bounds before any network call: the API is
\* invoked only for parameters within the bounds, and a search whose parameters
\* are out of bounds raises ExaSearchException without having invoked it.
C4_ValidationBeforeApi ==
    \A i \in STaskIds :
        /\ sTasks[i].called => ParamsInBounds(queries[i], kwargs)
        /\ (sTasks[i].st # "pending" /\ ~ParamsInBounds(queries[i], kwargs)) =>
              /\ sTasks[i].st = "raised"
              /\ sTasks[i].exc.type = "ExaSearchException"
              /\ ~sTasks[i].called

\* A search with only subpages out of bounds has raised without an API call.
C4_Witness ==
    /\ msMode = "single" /\ msPc = "raised"
    /\ kwargs.subpages = 6 /\ kwargs.num_results = 100 /\ kwargs.search_type = "neural"
    /\ queries[1] = <<"cars">>
    /\ sTasks[1].st = "raised" /\ ~sTasks[1].called

\* The extraction i failed to fetch or was blocked by the moderation gate.
FetchFailedOrBlocked(i) ==
    /\ eTasks[i].st = "done"
    /\ \/ eTasks[i].crawl.kind = "failed"
       \/ eTasks[i].guard.kind = "score" /\ ~PageAllowed(eTasks[i].guard.score)

\* C5 as stated: the mapping the search tool returns to the agent contains no
\* entry with success=False.
C5_NoFailedEntryReturned ==
    toolPc = "returned" => \A u \in DOMAIN contents : contents[u].success

\* C5, amended: a failed fetch or a moderation block yields an error-flagged
\* ExtractionResult (success=False, error set, content unset) that stays in the
\* mapping the search tool returns to the agent, carrying no page content.
C5_FailedEntryReturnedWithoutContent ==
    toolPc = "returned" =>
        \A i \in ETaskIds :
            (FetchFailedOrBlocked(i) /\ LastForUrl(i)) =>
                /\ eTasks[i].url \in DOMAIN contents
                /\ ~contents[eTasks[i].url].success
                /\ contents[eTasks[i].url].error # None
                /\ contents[eTasks[i].url].content = None

\* The tool returned a mapping with a blocked page in it.
C5_Witness ==
    /\ toolPc = "returned"
    /\ \E i \in ETaskIds :
          /\ FetchFailedOrBlocked(i)
          /\ eTasks[i].guard.kind = "score"
          /\ ~contents[eTasks[i].url].success

\* C6: extraction of an empty url list (extract_multiple([]) or
\* extract_web_content([])) returns an empty mapping, with no crawl started and
\* the moderation model not called.
C6_EmptyListReturnsEmpty ==
    (emPc # "idle" /\ urlsArg = ListArg(<<>>)) =>
        /\ emPc = "returned"
        /\ emMode = "multi"
        /\ DOMAIN emRet = {}
        /\ eTasks = <<>>

\* An extraction call with an empty list has returned.
C6_Witness == mainPc = "input" /\ emPc = "returned" /\ urlsArg = ListArg(<<>>)

\* C7: the flow is ordered.  The agent runs only after the prompt's moderation
\* check returned a score that is not above 0.6, and a blocked prompt ends the
\* program with exit status 1; extraction starts only after the search has
\* returned, over the urls of its results; every page returned with success=True
\* had its cleaned content scored by the moderation model.
C7_FlowOrder ==
    /\ agentRan => (promptGuard.kind = "score" /\ promptGuard.score <= 6)
    /\ (promptGuard.kind = "score" /\ promptGuard.score > 6) =>
          (mainPc = "exit1" /\ ~agentRan /\ toolPc = "idle")
    /\ (toolPc # "idle" \/ msPc # "idle") => agentRan
    /\ emPc # "idle" =>
          /\ msPc = "returned"
          /\ Len(urlsArg.list) = Len(msRet)
          /\ \A k \in 1..Len(msRet) : urlsArg.list[k] = msRet[k].url
          /\ \A k \in 1..Len(urlsArg.list) :
                \E i \in STaskIds : \E r \in 1..Len(sTasks[i].res) :
                    sTasks[i].st = "ok" /\ sTasks[i].res[r].url = urlsArg.list[k]
    /\ \A i \in ETaskIds :
          (eTasks[i].st = "done" /\ eTasks[i].result.success) =>
              /\ eTasks[i].guard.kind = "score"
              /\ eTasks[i].scored = Some(_clean_content(eTasks[i].crawl.page.markdown))
              /\ eTasks[i].result.content = eTasks[i].scored
    /\ toolPc = "returned" =>
          \A u \in DOMAIN contents :
              contents[u].success =>
                  \E i \in ETaskIds :
                      /\ eTasks[i].url = u
                      /\ eTasks[i].guard.kind = "score"
                      /\ eTasks[i].scored = contents[u].content

\* The tool returned a page with success=True to the running agent.
C7_Witness ==
    /\ mainPc = "agent" /\ toolPc = "returned"
    /\ \E u \in DOMAIN contents : contents[u].success

\* C8: the fan-out is bounded by max_concurrent: never more than max_concurrent
\* extractions of extract_multiple, or searches of multi_search, are in flight.
C8_FanOutBounded ==
    /\ emMode = "multi" =>
          Cardinality({i \in ETaskIds : eTasks[i].st = "crawling"}) <= emMax
    /\ msMode = "multi" =>
          Cardinality({i \in STaskIds : sTasks[i].st = "inflight"}) <= msMax

\* Number of results of the successful searches before search i.
RECURSIVE OkResultsBefore(_)
OkResultsBefore(i) ==
    IF i <= 1 THEN 0
    ELSE OkResultsBefore(i - 1)
         + (IF sTasks[i - 1].st = "ok" THEN Len(sTasks[i - 1].res) ELSE 0)

\* C9: in multi_search a failed search does not abort the others: the call
\* returns normally, a failed query contributes no results, and the return value
\* holds all results of every query whose search succeeded.
C9_MultiSearchCollects ==
    msMode = "multi" =>
        /\ msPc # "raised"
        /\ msPc = "returned" =>
              /\ Len(msRet) = OkResultsBefore(Len(sTasks) + 1)
              /\ \A i \in STaskIds :
                    sTasks[i].st = "ok" =>
                        \A r \in 1..Len(sTasks[i].res) :
                            msRet[OkResultsBefore(i) + r] = sTasks[i].res[r]

\* multi_search returned the results of one query although another failed.
C9_Witness ==
    /\ msMode = "multi" /\ msPc = "returned" /\ Len(msRet) > 0
    /\ \E i, j \in STaskIds :
          /\ sTasks[i].st = "raised" /\ sTasks[i].called
          /\ sTasks[j].st = "ok" /\ Len(sTasks[j].res) > 0

\* C10: multi_search returns one element per input query, in the order of the
\* queries: element i is the list of results of queries[i], the empty list when
\* that search failed.
C10_OneListPerQuery ==
    (msMode = "multi" /\ msPc = "returned") =>
        /\ Len(msRet) = Len(queries)
        /\ \A i \in STaskIds : sTasks[i].st = "raised" => msRet[i] = <<>>
        /\ \A i \in STaskIds : sTasks[i].st = "ok" => msRet[i] = sTasks[i].res

\* The handlers the claim gives the logger of a file whose first call saw env.
FirstCallHandlers(c, env) ==
    IF env = Some("DEV")
    THEN <<[kind |-> "file", target |-> Some(c.base)], [kind |-> "console", target |-> None]>>
    ELSE <<[kind |-> "console", target |-> None]>>

\* C11: after any sequence of get_logger calls from the same calling file, its
\* logger has the handlers added by the first call only (one console handler,
\* plus one file handler when CURRENT_ENV was DEV at that call), and every call
\* returned the same logger object.
C11_HandlersConfiguredOnce ==
    \A c \in Callers :
        callLog[c].n >= 1 =>
            /\ c.base \in DOMAIN loggerDict
            /\ loggerDict[c.base].handlers = FirstCallHandlers(c, callLog[c].firstEnv)
            /\ loggerDict[c.base].id = callLog[c].firstId
            /\ callLog[c].lastId = callLog[c].firstId
            /\ \A d \in Callers : (d # c /\ callLog[d].n >= 1) =>
                  callLog[d].firstId # callLog[c].firstId

\* A file called get_logger twice, first under DEV and again after CURRENT_ENV
\* changed, and its logger holds the two handlers of the first call.
C11_Witness ==
    \E c \in Callers :
        /\ callLog[c].n = 2
        /\ callLog[c].firstEnv = Some("DEV")
        /\ currentEnv = Some("PROD")
        /\ Len(loggerDict[c.base].handlers) = 2

\* The url the extraction i was asked for.
RequestedUrl(i) == IF emMode = "single" THEN urlsArg.str ELSE urlsArg.list[i]

\* The two shapes of an ExtractionResult.
SuccessShape(r) == r.success /\ r.content # None /\ r.error = None
ErrorShape(r) == ~r.success /\ r.error # None /\ r.content = None

\* C12: extract_content never raises an ordinary exception, and every
\* ExtractionResult it returns is for the requested url and is either
\* success=True with content set and error unset, or success=False with error
\* set and content unset, whatever the crawler and the moderation call did.
C12_ResultShapes ==
    /\ emPc # "raised"
    /\ \A i \in ETaskIds :
          eTasks[i].st = "done" =>
              /\ ~eTasks[i].raised
              /\ eTasks[i].result.url = RequestedUrl(i)
              /\ SuccessShape(eTasks[i].result) \/ ErrorShape(eTasks[i].result)
              /\ ~(SuccessShape(eTasks[i].result) /\ ErrorShape(eTasks[i].result))
    /\ (emMode = "single" /\ emPc = "returned") =>
          /\ emRet = eTasks[1].result
          /\ emRet.url = urlsArg.str

\* extract_content, called on its own, returned an error result after the
\* moderation model's reply could not be parsed.
C12_Witness ==
    /\ emMode = "single" /\ emPc = "returned"
    /\ eTasks[1].crawl.kind = "ok"
    /\ eTasks[1].guard.kind = "unparsable"
    /\ ErrorShape(emRet)

\* C13: for a non-empty url list, the keys of the mapping extract_multiple
\* returns are exactly the distinct input urls, and the value under each key u
\* is a result whose url is u, whatever the completion order.
C13_KeysAreInputUrls ==
    (emMode = "multi" /\ emPc = "returned" /\ urlsArg.list # <<>>) =>
        /\ DOMAIN emRet = {urlsArg.list[k] : k \in 1..Len(urlsArg.list)}
        /\ \A u \in DOMAIN emRet : emRet[u].url = u

\* extract_multiple returned entries for two urls, one a success and one
\* failed by an exception of the crawler.
C13_Witness ==
    /\ emMode = "multi" /\ emPc = "returned"
    /\ Cardinality(DOMAIN emRet) = 2
    /\ \E i \in ETaskIds : eTasks[i].crawl.kind = "exception"
    /\ \E u \in DOMAIN emRet : emRet[u].success

====
